---- MODULE Spec2Model ----
(***************************************************************************)
(* A model of DeepseekMCP's retry executor (retry.go, RetryWithBackoff)    *)
(* and of its in-memory context cache (cache.go, createCache / getCache).  *)
(*                                                                         *)
(* Durations and clock readings are integers, as Go's time.Duration is;    *)
(* one unit of the model is 100ms, so Second == 10.                        *)
(***************************************************************************)
EXTENDS Integers, Sequences, FiniteSets, TLC

\* ------------------------------------------------------------------ bounds

\* Largest maxRetries a call is given (the smallest is -1).
MaxRetriesIn == 5

\* Number of goroutines calling into the cache store.
NumTasks == 2

\* Number of times the clock advances, by one second each time.
MaxTicks == 2

\* Number of createCache calls that get past the checks.
MaxCreates == 2

\* ------------------------------------------------------------- time units

\* time.Second, in units of 100ms.
Second == 10

\* ------------------------------------------------------------------ errors

\* A Go error value: nil, or an error whose message is a sequence of words.
\* strings.Contains(err.Error(), w) is modelled as "w is one of the words".
NilErr == [nil |-> TRUE, msg |-> <<>>]

Err(m) == [nil |-> FALSE, msg |-> m]

Contains(e, w) == \E i \in DOMAIN e.msg : e.msg[i] = w

\* Errors the operation (the outbound API call) can return.
ErrDeadline == Err(<<"context", "deadline", "exceeded">>)

ErrEOF == Err(<<"unexpected", "EOF">>)

ErrAuth == Err(<<"401", "unauthorized">>)

OpErrors == {ErrDeadline, ErrEOF, ErrAuth}

OpResults == {NilErr} \cup OpErrors

\* errors.New("operation cancelled during backoff")
ErrCancelled == Err(<<"operation", "cancelled", "during", "backoff">>)

IsTimeoutError(e) ==
    /\ ~e.nil
    /\ \/ Contains(e, "timeout")
       \/ Contains(e, "deadline")
       \/ Contains(e, "timed out")

IsNetworkError(e) ==
    IF e.nil THEN FALSE
    ELSE \/ Contains(e, "network")
         \/ Contains(e, "connection")
         \/ Contains(e, "broken pipe")
         \/ Contains(e, "reset")
         \/ Contains(e, "EOF")
         \/ Contains(e, "closed")

IsRetryableError(e) == IsTimeoutError(e) \/ IsNetworkError(e)

\* The ErrorClassifier arguments a call is given: the one the server passes
\* (IsRetryableError) and a classifier that rejects every error.
Classifiers == {"IsRetryableError", "AlwaysFalse"}

\* errorClassifier(err)
Classify(c, e) ==
    CASE c = "IsRetryableError" -> IsRetryableError(e)
      [] c = "AlwaysFalse" -> FALSE

\* ---------------------------------------------------------- retry executor

VARIABLES
    maxRetries,       \* argument: int
    initialBackoff,   \* argument: time.Duration
    maxBackoff,       \* argument: time.Duration
    errorClassifier,  \* argument: ErrorClassifier
    ctxDone,          \* ctx.Done() is closed
    timerFired,       \* the channel of time.After(nextBackoff) is ready
    selected,         \* the case the select statement chose: "none", "done", "timer"
    rpc,              \* position of the call: "loop", "select", "parked", "done"
    attempt,          \* local: loop counter
    backoff,          \* local: base delay
    nextBackoff,      \* local: the delay being waited
    err,              \* local: last error of the operation
    result,           \* the value the call returned
    rpath,            \* which return statement returned it
    randomJitter,     \* local: the jitter drawn for the current wait
    calls,            \* history: number of invocations of the operation
    cancelWait,       \* history: the wait (1, 2, ...) the cancellation fired in, or 0
    waits             \* history: the base delay of each backoff wait begun

retryVars ==
    <<maxRetries, initialBackoff, maxBackoff, errorClassifier, ctxDone,
      timerFired, selected, rpc, attempt, backoff, nextBackoff, err, result, rpath,
      randomJitter, calls, cancelWait, waits>>

\* The cache store's state (described with the cache store below).
VARIABLES
    config,           \* s.config: EnableCaching, DefaultCacheTTL, MaxRetries, DeepseekModel
    now,              \* the clock time.Now() reads
    caches,           \* s.caches: map from cache id to *CacheInfo
    cacheMu,          \* s.cacheMu: the readers holding it and its writer
    tasks,            \* per calling goroutine: position and locals of its call
    last,             \* the call that returned in the step just taken, and what it returned
    returned,         \* history: [req, ttl, info] of each createCache that returned an entry
    purged            \* history: the ids a getCache has returned "cache has expired" for

cacheVars == <<config, now, caches, cacheMu, tasks, last, returned, purged>>

\* A tool request in the handler: its position and its locals.
VARIABLE handler

\* The process: main's position, its inputs and the registry it serves; and
\* the LoggerMiddleware that wraps the registered handler.
VARIABLES startup, middleware

serverVars == <<startup, middleware>>

vars == <<retryVars, cacheVars, handler, serverVars>>

\* The policies calls are given: initialBackoff and maxBackoff of the
\* configuration (defaults 1s and 10s), any duration the environment sets.
InitialBackoffs == {Second \div 2, Second, 2 * Second}

MaxBackoffs == {Second, 10 * Second}

\* A loop that stops one iteration early.
LoopCond_Strict(a, mr) == a < mr

\* for attempt := 0; attempt <= maxRetries; attempt++
LoopCond(a, mr) == a <= mr

\* The return test with && for ||: a nil error is not returned at once.
ShouldReturn_And(c, e) == ~e.nil /\ ~Classify(c, e)

\* The return test without the classifier: every error is retried.
ShouldReturn_NilOnly(c, e) == e.nil

\* if err == nil || !errorClassifier(err) { return err }
ShouldReturn(c, e) == e.nil \/ ~Classify(c, e)

\* if attempt == maxRetries
LastAttempt(a, mr) == a = mr

\* The last error wrapped in an annotation of the exhaustion.
ExhaustedResult_Wrapped(e) == Err(<<"retries", "exhausted:">> \o e.msg)

\* logger.Error("Operation failed after %d attempts: %v", ...); return err
ExhaustedResult(e) == e

\* A jitter drawn on both sides of the base.
Jitters_Signed(b) == {j \in (0 - (b \div 10))..(b \div 10) : j = 0 \/ j * 10 < b}

\* randomJitter := time.Duration(r.Float64() * 0.1 * float64(backoff)):
\* r.Float64() is in [0, 1), the conversion truncates.
Jitters(b) == {j \in 0..(b \div 10) : j = 0 \/ j * 10 < b}

\* The delay left uncapped.
CapBackoff_None(nb, mb) == nb

\* if nextBackoff > maxBackoff { nextBackoff = maxBackoff }
CapBackoff(nb, mb) == IF nb > mb THEN mb ELSE nb

\* Doubling the jittered, capped delay instead of the base.
NextBase_Jittered(b, nb) == nb * 2

\* The doubled base capped at maxBackoff.
NextBase_Capped(b, nb) == IF b * 2 > maxBackoff THEN maxBackoff ELSE b * 2

\* backoff = time.Duration(float64(backoff) * 2.0)
NextBase(b, nb) == b * 2

InitRetry ==
    /\ maxRetries \in -1..MaxRetriesIn
    /\ initialBackoff \in InitialBackoffs
    /\ maxBackoff \in MaxBackoffs
    /\ errorClassifier \in Classifiers
    /\ ctxDone = FALSE
    /\ timerFired = FALSE
    /\ selected = "none"
    /\ rpc = "loop"
    /\ attempt = 0
    /\ backoff = initialBackoff
    /\ nextBackoff = 0
    /\ err = NilErr
    /\ result = NilErr
    /\ rpath = "none"
    /\ randomJitter = 0
    /\ calls = 0
    /\ cancelWait = 0
    /\ waits = <<>>

Return(e, path) ==
    /\ rpc' = "done"
    /\ result' = e
    /\ rpath' = path

\* One iteration of the loop up to the select statement: the operation is
\* invoked and its error decides between returning and waiting.
Attempt ==
    /\ rpc = "loop"
    /\ LoopCond(attempt, maxRetries)
    /\ \E r \in OpResults :
        /\ err' = r
        /\ calls' = calls + 1
        /\ IF ShouldReturn(errorClassifier, r)
           THEN /\ Return(r, IF r.nil THEN "success" ELSE "nonretryable")
                /\ UNCHANGED <<nextBackoff, randomJitter, waits, timerFired>>
           ELSE IF LastAttempt(attempt, maxRetries)
           THEN /\ Return(ExhaustedResult(r), "exhausted")
                /\ UNCHANGED <<nextBackoff, randomJitter, waits, timerFired>>
           ELSE \E j \in Jitters(backoff) :
                /\ randomJitter' = j
                /\ nextBackoff' = CapBackoff(backoff + j, maxBackoff)
                /\ waits' = Append(waits, backoff)
                /\ timerFired' = FALSE
                /\ rpc' = "select"
                /\ UNCHANGED <<result, rpath>>
    /\ UNCHANGED <<maxRetries, initialBackoff, maxBackoff, errorClassifier,
                   ctxDone, selected, attempt, backoff, cancelWait>>
    /\ UNCHANGED <<cacheVars, handler, serverVars>>

\* The loop condition fails: "return err" after the loop.
LoopExit ==
    /\ rpc = "loop"
    /\ ~LoopCond(attempt, maxRetries)
    /\ Return(err, "afterloop")
    /\ UNCHANGED <<maxRetries, initialBackoff, maxBackoff, errorClassifier,
                   ctxDone, timerFired, selected, attempt, backoff, nextBackoff, err,
                   randomJitter, calls, cancelWait, waits>>
    /\ UNCHANGED <<cacheVars, handler, serverVars>>

\* The select statement of the backoff wait, as the Go runtime runs it: the
\* channel operands are evaluated first (time.After starts the timer), then
\* the cases are polled, and a case that is ready is chosen, any one of them
\* when both are; when none is ready the goroutine parks and the first channel
\* to become ready wakes it with its own case chosen.
SelectPoll ==
    /\ rpc = "select"
    /\ \E c \in {"done", "timer", "none"} :
        /\ c = "done" => ctxDone
        /\ c = "timer" => timerFired
        /\ c = "none" => (~ctxDone /\ ~timerFired)
        /\ selected' = c
    /\ rpc' = "parked"
    /\ UNCHANGED <<maxRetries, initialBackoff, maxBackoff, errorClassifier,
                   ctxDone, timerFired, attempt, backoff, nextBackoff, err,
                   result, rpath, randomJitter, calls, cancelWait, waits>>
    /\ UNCHANGED <<cacheVars, handler, serverVars>>

\* A wait that answers a cancellation by going on to the next attempt.
SelectDone_Swallowed ==
    /\ rpc = "parked"
    /\ selected = "done"
    /\ backoff' = backoff * 2
    /\ attempt' = attempt + 1
    /\ rpc' = "loop"
    /\ UNCHANGED <<maxRetries, initialBackoff, maxBackoff, errorClassifier,
                   ctxDone, timerFired, selected, nextBackoff, err, result,
                   rpath, randomJitter, calls, cancelWait, waits>>
    /\ UNCHANGED <<cacheVars, handler, serverVars>>

\* case <-ctx.Done(): return errors.New("operation cancelled during backoff")
SelectDone ==
    /\ rpc = "parked"
    /\ selected = "done"
    /\ Return(ErrCancelled, "cancelled")
    /\ UNCHANGED <<maxRetries, initialBackoff, maxBackoff, errorClassifier,
                   ctxDone, timerFired, selected, attempt, backoff,
                   nextBackoff, err, randomJitter, calls, cancelWait, waits>>
    /\ UNCHANGED <<cacheVars, handler, serverVars>>

\* case <-time.After(nextBackoff), then the end of the loop body.
SelectTimer ==
    /\ rpc = "parked"
    /\ selected = "timer"
    /\ backoff' = NextBase(backoff, nextBackoff)
    /\ attempt' = attempt + 1
    /\ rpc' = "loop"
    /\ selected' = "none"
    /\ UNCHANGED <<maxRetries, initialBackoff, maxBackoff, errorClassifier,
                   ctxDone, timerFired, nextBackoff, err, result, rpath,
                   randomJitter, calls, cancelWait, waits>>
    /\ UNCHANGED <<cacheVars, handler, serverVars>>

\* The call is in its backoff wait: the timer is started and the select
\* statement has not been left.
InWait == rpc \in {"select", "parked"}

\* The caller cancels the context, at any moment of the call; a goroutine
\* parked in the select is woken with the ctx.Done() case.
Cancel ==
    /\ rpc # "done"
    /\ ~ctxDone
    /\ ctxDone' = TRUE
    /\ selected' = IF rpc = "parked" /\ selected = "none" THEN "done" ELSE selected
    /\ cancelWait' = IF InWait THEN Len(waits) ELSE 0
    /\ UNCHANGED <<maxRetries, initialBackoff, maxBackoff, errorClassifier,
                   timerFired, rpc, attempt, backoff, nextBackoff, err,
                   result, rpath, randomJitter, calls, waits>>
    /\ UNCHANGED <<cacheVars, handler, serverVars>>

\* The delay of time.After elapses; a goroutine parked in the select is woken
\* with the timer case.
TimerFire ==
    /\ InWait
    /\ ~timerFired
    /\ timerFired' = TRUE
    /\ selected' = IF rpc = "parked" /\ selected = "none" THEN "timer" ELSE selected
    /\ UNCHANGED <<maxRetries, initialBackoff, maxBackoff, errorClassifier,
                   ctxDone, rpc, attempt, backoff, nextBackoff, err, result,
                   rpath, randomJitter, calls, cancelWait, waits>>
    /\ UNCHANGED <<cacheVars, handler, serverVars>>

\* ------------------------------------------------------------ cache store

\* The goroutines calling into the store.
Tasks == 1..NumTasks

\* The characters of the ttl strings drawn. Durations are whole multiples of
\* 100ms, so fractions and the units ns, us and ms are not drawn.
Digits == <<"0", "1", "2", "3", "4", "5", "6", "7", "8", "9">>

IsDigit(c) == \E i \in DOMAIN Digits : Digits[i] = c

DigitVal(c) == (CHOOSE i \in DOMAIN Digits : Digits[i] = c) - 1

\* time.ParseDuration's unitMap, for the units drawn.
UnitMap ==
    [u \in {<<"s">>, <<"m">>, <<"h">>} |->
        CASE u = <<"s">> -> Second
          [] u = <<"m">> -> 60 * Second
          [] u = <<"h">> -> 3600 * Second]

\* leadingInt: the value of the digits s starts with, and how many they are.
RECURSIVE LeadingInt(_, _, _)
LeadingInt(s, i, x) ==
    IF i <= Len(s) /\ IsDigit(s[i])
    THEN LeadingInt(s, i + 1, x * 10 + DigitVal(s[i]))
    ELSE [x |-> x, next |-> i]

\* The end of the unit that starts at s[i]: the first digit or "." after it.
RECURSIVE UnitEnd(_, _)
UnitEnd(s, i) ==
    IF i <= Len(s) /\ ~IsDigit(s[i]) /\ s[i] # "."
    THEN UnitEnd(s, i + 1)
    ELSE i

ParseFailed == [ok |-> FALSE, d |-> 0]

\* The loop of time.ParseDuration over ([0-9]+[a-z]+)+, from s[i] on.
RECURSIVE ParseGroups(_, _, _)
ParseGroups(s, i, d) ==
    IF i > Len(s) THEN [ok |-> TRUE, d |-> d]
    ELSE IF ~IsDigit(s[i]) THEN ParseFailed
    ELSE LET li == LeadingInt(s, i, 0)
             ue == UnitEnd(s, li.next)
             u == SubSeq(s, li.next, ue - 1)
         IN IF ue = li.next THEN ParseFailed               \* missing unit
            ELSE IF u \notin DOMAIN UnitMap THEN ParseFailed  \* unknown unit
            ELSE ParseGroups(s, ue, d + li.x * UnitMap[u])

\* time.ParseDuration(s): [-+]?([0-9]+[a-z]+)+, and "0" without a unit.
ParseDuration(s) ==
    LET signed == s # <<>> /\ s[1] \in {"-", "+"}
        neg == s # <<>> /\ s[1] = "-"
        body == IF signed THEN Tail(s) ELSE s
    IN IF body = <<"0">> THEN [ok |-> TRUE, d |-> 0]
       ELSE IF body = <<>> THEN ParseFailed
       ELSE LET r == ParseGroups(body, 1, 0)
            IN IF ~r.ok THEN ParseFailed
               ELSE [ok |-> TRUE, d |-> IF neg THEN 0 - r.d ELSE r.d]

\* GetAvailableDeepseekModels: the ids of the registry.
AvailableModels ==
    <<"deepseek-chat", "deepseek-coder", "deepseek-reasoner",
      "deepseek-chat-001", "deepseek-coder-001">>

\* ValidateModelID(modelID) == nil
ValidateModelID(m) == \E i \in DOMAIN AvailableModels : AvailableModels[i] = m

\* fmt.Sprintf("cache-%d", n)
CacheID(n) == <<"cache-", n>>

\* The requests drawn: two requests that differ in every field, and the
\* first of them with each other model and each other ttl.
BaseRequest ==
    [Model |-> "deepseek-chat", SystemPrompt |-> "", FilePaths |-> <<>>,
     TTL |-> <<>>]

OtherRequest ==
    [Model |-> "deepseek-coder-001", SystemPrompt |-> "Be brief.",
     FilePaths |-> <<"main.go">>, TTL |-> <<"1", "s">>]

Requests ==
    {BaseRequest, OtherRequest}
    \cup {[BaseRequest EXCEPT !.Model = m] : m \in {"", "gpt-4"}}
    \cup {[BaseRequest EXCEPT !.TTL = ttl] :
            ttl \in {<<"0">>, <<"-", "1", "s">>, <<"1", "d">>}}

\* The ids getCache is asked for: every id createCache can make, and one it
\* cannot.
GetIDs == {CacheID(n * Second) : n \in 0..MaxTicks} \cup {<<"unknown", 0>>}

\* A nil *CacheInfo.
NilInfo == [nil |-> TRUE]

\* A ttl string that does not parse resolved to the default.
ResolveTTL_Lenient(r, cfg) ==
    IF r.TTL = <<>> \/ ~ParseDuration(r.TTL).ok
    THEN [ok |-> TRUE, d |-> cfg.DefaultCacheTTL]
    ELSE ParseDuration(r.TTL)

\* The resolved ttl of a request: lines 38-47 of createCache.
ResolveTTL(r, cfg) ==
    IF r.TTL = <<>> THEN [ok |-> TRUE, d |-> cfg.DefaultCacheTTL]
    ELSE ParseDuration(r.TTL)

\* The checks without the registry's.
CreateError_NoRegistry(r, cfg) ==
    IF ~cfg.EnableCaching THEN "caching is disabled"
    ELSE IF r.Model = "" THEN "model is required"
    ELSE IF ~ResolveTTL(r, cfg).ok THEN "invalid TTL format"
    ELSE ""

\* The error of createCache's checks, "" when the request passes them.
CreateError(r, cfg) ==
    IF ~cfg.EnableCaching THEN "caching is disabled"
    ELSE IF r.Model = "" THEN "model is required"
    ELSE IF ~ValidateModelID(r.Model) THEN "invalid model"
    ELSE IF ~ResolveTTL(r, cfg).ok THEN "invalid TTL format"
    ELSE ""

\* An expiry computed from the magnitude of the ttl.
ExpiresAt_Abs(createdAt, ttl) ==
    createdAt + (IF ttl < 0 THEN 0 - ttl ELSE ttl)

\* expiresAt := createdAt.Add(ttl)
ExpiresAt(createdAt, ttl) == createdAt + ttl

\* The expiry test with "not before" for "after".
Expired_AtOrAfter(t, info) == t >= info.ExpiresAt

\* time.Now().After(info.ExpiresAt)
Expired(t, info) == t > info.ExpiresAt

\* A goroutine in no call, and the locals of a call: the request, id, ttl,
\* cacheID and info of the code; at, the clock read by the expiry check; seen
\* and after, what had happened when the call began (the createCache calls
\* that had returned, and whether a getCache had returned "cache has expired"
\* for the id).
IdleTask ==
    [pc |-> "idle", req |-> BaseRequest, id |-> CacheID(0), ttl |-> 0,
     cacheID |-> CacheID(0), info |-> NilInfo, ok |-> FALSE, at |-> 0,
     seen |-> 0, after |-> FALSE]

NoCall == [op |-> "none"]

\* The miss reported with the condition of an expired entry.
GetMiss_Expired == [ok |-> FALSE, err |-> "cache has expired", info |-> NilInfo]

\* return nil, fmt.Errorf("cache not found: %s", id)
GetMiss == [ok |-> FALSE, err |-> "cache not found", info |-> NilInfo]

\* maxRetries := 2 of NewConfig.
DefaultMaxRetries == 2

\* The store after NewDeepseekServer, under the configurations drawn.
InitCache ==
    /\ config \in [EnableCaching : BOOLEAN, DefaultCacheTTL : {2 * Second},
                    MaxRetries : {DefaultMaxRetries},
                    DeepseekModel : {"deepseek-chat"}]
    /\ now = 0
    /\ caches = <<>>
    /\ cacheMu = [readers |-> {}, writer |-> 0]
    /\ tasks = [t \in Tasks |-> IdleTask]
    /\ last = NoCall
    /\ returned = <<>>
    /\ purged = {}

\* A call of goroutine t returns res: the goroutine is idle again.
Done(t, res) ==
    /\ tasks' = [tasks EXCEPT ![t] = IdleTask]
    /\ last' = [task |-> t] @@ res
    /\ purged' = IF res.op = "get" /\ res.err = "cache has expired"
                 THEN purged \cup {res.id}
                 ELSE purged

\* createCache up to "cacheID := ...": the checks, the ttl, the id.
CreateCall(t, r) ==
    /\ tasks[t].pc = "idle"
    /\ Len(returned) + Cardinality({u \in Tasks : tasks[u].pc \in
            {"c_stamp", "c_lock", "c_store", "c_unlock"}}) < MaxCreates
    /\ LET e == CreateError(r, config)
       IN IF e # ""
          THEN Done(t, [op |-> "create", req |-> r, ok |-> FALSE,
                        err |-> e, info |-> NilInfo])
          ELSE /\ tasks' = [tasks EXCEPT ![t] =
                    [IdleTask EXCEPT !.pc = "c_stamp", !.req = r,
                                     !.ttl = ResolveTTL(r, config).d,
                                     !.cacheID = CacheID(now)]]
               /\ last' = NoCall
               /\ purged' = purged
    /\ UNCHANGED <<config, now, caches, cacheMu, returned>>
    /\ UNCHANGED <<retryVars, handler, serverVars>>

\* createdAt := time.Now(), the expiry and the CacheInfo.
CreateStamp(t) ==
    /\ tasks[t].pc = "c_stamp"
    /\ tasks' = [tasks EXCEPT ![t].pc = "c_lock",
                              ![t].info =
                                [ID |-> tasks[t].cacheID,
                                 SystemPrompt |-> tasks[t].req.SystemPrompt,
                                 Model |-> tasks[t].req.Model,
                                 FilePaths |-> tasks[t].req.FilePaths,
                                 CreatedAt |-> now,
                                 ExpiresAt |-> ExpiresAt(now, tasks[t].ttl)]]
    /\ last' = NoCall
    /\ purged' = purged
    /\ UNCHANGED <<config, now, caches, cacheMu, returned>>
    /\ UNCHANGED <<retryVars, handler, serverVars>>

\* A write lock that does not wait for the readers.
Lock_IgnoringReaders(t) ==
    /\ cacheMu.writer = 0
    /\ cacheMu' = [cacheMu EXCEPT !.writer = t]

\* s.cacheMu.Lock(): no reader and no writer holds the mutex.
Lock(t) ==
    /\ cacheMu.readers = {}
    /\ cacheMu.writer = 0
    /\ cacheMu' = [cacheMu EXCEPT !.writer = t]

\* s.cacheMu.Unlock()
Unlock(t) == cacheMu' = [cacheMu EXCEPT !.writer = 0]

\* s.cacheMu.RLock(): no writer holds the mutex.
RLock(t) ==
    /\ cacheMu.writer = 0
    /\ cacheMu' = [cacheMu EXCEPT !.readers = @ \cup {t}]

\* s.cacheMu.RUnlock()
RUnlock(t) == cacheMu' = [cacheMu EXCEPT !.readers = @ \ {t}]

\* s.caches[id] = info
MapStore(m, id, info) ==
    [k \in DOMAIN m \cup {id} |-> IF k = id THEN info ELSE m[k]]

\* delete(s.caches, id)
MapDelete(m, id) == [k \in DOMAIN m \ {id} |-> m[k]]

CreateLock(t) ==
    /\ tasks[t].pc = "c_lock"
    /\ Lock(t)
    /\ tasks' = [tasks EXCEPT ![t].pc = "c_store"]
    /\ last' = NoCall
    /\ purged' = purged
    /\ UNCHANGED <<config, now, caches, returned>>
    /\ UNCHANGED <<retryVars, handler, serverVars>>

CreateStore(t) ==
    /\ tasks[t].pc = "c_store"
    /\ caches' = MapStore(caches, tasks[t].cacheID, tasks[t].info)
    /\ tasks' = [tasks EXCEPT ![t].pc = "c_unlock"]
    /\ last' = NoCall
    /\ purged' = purged
    /\ UNCHANGED <<config, now, cacheMu, returned>>
    /\ UNCHANGED <<retryVars, handler, serverVars>>

\* s.cacheMu.Unlock() and "return cacheInfo, nil".
CreateUnlock(t) ==
    /\ tasks[t].pc = "c_unlock"
    /\ Unlock(t)
    /\ returned' = Append(returned, [req |-> tasks[t].req,
                                     ttl |-> tasks[t].ttl,
                                     info |-> tasks[t].info])
    /\ Done(t, [op |-> "create", req |-> tasks[t].req, ok |-> TRUE,
                 err |-> "", info |-> tasks[t].info])
    /\ UNCHANGED <<config, now, caches>>
    /\ UNCHANGED <<retryVars, handler, serverVars>>

\* getCache(id) up to s.cacheMu.RLock().
GetCall(t, id) ==
    /\ tasks[t].pc = "idle"
    /\ RLock(t)
    /\ tasks' = [tasks EXCEPT ![t] =
            [IdleTask EXCEPT !.pc = "g_lookup", !.id = id,
                             !.seen = Len(returned),
                             !.after = id \in purged]]
    /\ last' = NoCall
    /\ purged' = purged
    /\ UNCHANGED <<config, now, caches, returned>>
    /\ UNCHANGED <<retryVars, handler, serverVars>>

\* info, ok := s.caches[id]
GetLookup(t) ==
    /\ tasks[t].pc = "g_lookup"
    /\ LET found == tasks[t].id \in DOMAIN caches
       IN tasks' = [tasks EXCEPT ![t].pc = "g_runlock",
                                 ![t].ok = found,
                                 ![t].info = IF found THEN caches[tasks[t].id]
                                             ELSE NilInfo]
    /\ last' = NoCall
    /\ purged' = purged
    /\ UNCHANGED <<config, now, caches, cacheMu, returned>>
    /\ UNCHANGED <<retryVars, handler, serverVars>>

\* getCache going on to the expiry check with the read lock still held.
GetRUnlock_Held(t) ==
    /\ tasks[t].pc = "g_runlock"
    /\ tasks' = [tasks EXCEPT ![t].pc = "g_check"]
    /\ last' = NoCall
    /\ purged' = purged
    /\ UNCHANGED <<config, now, caches, cacheMu, returned>>
    /\ UNCHANGED <<retryVars, handler, serverVars>>

GetRUnlock(t) ==
    /\ tasks[t].pc = "g_runlock"
    /\ RUnlock(t)
    /\ tasks' = [tasks EXCEPT ![t].pc = "g_check"]
    /\ last' = NoCall
    /\ purged' = purged
    /\ UNCHANGED <<config, now, caches, returned>>
    /\ UNCHANGED <<retryVars, handler, serverVars>>

\* "if ok { if time.Now().After(info.ExpiresAt) ..." and the two returns that
\* take no lock.
GetCheck(t) ==
    /\ tasks[t].pc = "g_check"
    /\ LET g == tasks[t]
           res == [op |-> "get", id |-> g.id, at |-> now, seen |-> g.seen,
                   after |-> g.after,
                   found |-> [ok |-> g.ok, info |-> g.info]]
       IN IF ~g.ok
          THEN Done(t, res @@ GetMiss)
          ELSE IF Expired(now, g.info)
          THEN /\ tasks' = [tasks EXCEPT ![t].pc = "g_lock", ![t].at = now]
               /\ last' = NoCall
               /\ purged' = purged
          ELSE Done(t, res @@ [ok |-> TRUE, err |-> "", info |-> g.info])
    /\ UNCHANGED <<config, now, caches, cacheMu, returned>>
    /\ UNCHANGED <<retryVars, handler, serverVars>>

GetLock(t) ==
    /\ tasks[t].pc = "g_lock"
    /\ Lock(t)
    /\ tasks' = [tasks EXCEPT ![t].pc = "g_delete"]
    /\ last' = NoCall
    /\ purged' = purged
    /\ UNCHANGED <<config, now, caches, returned>>
    /\ UNCHANGED <<retryVars, handler, serverVars>>

GetDelete(t) ==
    /\ tasks[t].pc = "g_delete"
    /\ caches' = MapDelete(caches, tasks[t].id)
    /\ tasks' = [tasks EXCEPT ![t].pc = "g_unlock"]
    /\ last' = NoCall
    /\ purged' = purged
    /\ UNCHANGED <<config, now, cacheMu, returned>>
    /\ UNCHANGED <<retryVars, handler, serverVars>>

\* s.cacheMu.Unlock() and the return of "cache has expired".
GetUnlock(t) ==
    /\ tasks[t].pc = "g_unlock"
    /\ Unlock(t)
    /\ Done(t, [op |-> "get", id |-> tasks[t].id, at |-> tasks[t].at,
                 seen |-> tasks[t].seen, after |-> tasks[t].after,
                 found |-> [ok |-> TRUE, info |-> tasks[t].info],
                 ok |-> FALSE,
                 err |-> "cache has expired", info |-> NilInfo])
    /\ UNCHANGED <<config, now, caches, returned>>
    /\ UNCHANGED <<retryVars, handler, serverVars>>

\* The clock advances.
Tick ==
    /\ now < MaxTicks * Second
    /\ now' = now + Second
    /\ last' = NoCall
    /\ purged' = purged
    /\ UNCHANGED <<config, caches, cacheMu, tasks, returned>>
    /\ UNCHANGED <<retryVars, handler, serverVars>>

NextCache ==
    \/ \E t \in Tasks, r \in Requests : CreateCall(t, r)
    \/ \E t \in Tasks : CreateStamp(t)
    \/ \E t \in Tasks : CreateLock(t)
    \/ \E t \in Tasks : CreateStore(t)
    \/ \E t \in Tasks : CreateUnlock(t)
    \/ \E t \in Tasks, id \in GetIDs : GetCall(t, id)
    \/ \E t \in Tasks : GetLookup(t)
    \/ \E t \in Tasks : GetRUnlock(t)
    \/ \E t \in Tasks : GetCheck(t)
    \/ \E t \in Tasks : GetLock(t)
    \/ \E t \in Tasks : GetDelete(t)
    \/ \E t \in Tasks : GetUnlock(t)
    \/ Tick

\* ---------------------------------------------------------- request handler

\* GetModelByID(m).SupportsCaching: the models with a version suffix.
SupportsCaching(m) == m \in {"deepseek-chat-001", "deepseek-coder-001"}

\* The arguments of the requests drawn: a query that is a string or not, empty
\* or not; no model, a model of the registry, an unknown model; use_cache;
\* cache_ttl absent, negative, malformed.
Arguments ==
    [queryOk : BOOLEAN, query : {"", "q"},
     model : {"", "deepseek-coder-001", "gpt-4"},
     use_cache : BOOLEAN,
     cache_ttl : {<<>>, <<"-", "1", "s">>, <<"1", "d">>}]

NoResponse == [IsError |-> FALSE, Text |-> ""]

\* createErrorResponse(message)
createErrorResponse(message) == [IsError |-> TRUE, Text |-> message]

\* s.formatResponse(response)
formatResponse == [IsError |-> FALSE, Text |-> "response"]

NoID == <<"", 0>>

\* No request is in the handler.
IdleHandler ==
    [pc |-> "idle", query |-> "", modelName |-> "", useCache |-> FALSE,
     cacheTTL |-> <<>>, cacheID |-> NoID, cacheErr |-> "", getErr |-> "",
     cached |-> FALSE,
     calls |-> 0, first |-> NilErr, resp |-> NoResponse]

\* The handler returns response r.
Respond(r) == handler' = [handler EXCEPT !.pc = "done", !.resp = r]

\* handleAskDeepseek up to "if useCache && s.config.EnableCaching".
HandleAskDeepseek(a) ==
    /\ handler.pc = "idle"
    /\ IF ~a.queryOk
       THEN Respond(createErrorResponse("query must be a string"))
       ELSE IF a.model # "" /\ ~ValidateModelID(a.model)
       THEN Respond(createErrorResponse("Invalid model specified"))
       ELSE handler' =
              [IdleHandler EXCEPT
                 !.pc = IF a.use_cache /\ config.EnableCaching
                        THEN "cache" ELSE "regular",
                 !.query = a.query,
                 !.modelName = IF a.model # "" THEN a.model
                               ELSE config.DeepseekModel,
                 !.useCache = a.use_cache,
                 !.cacheTTL = a.cache_ttl]
    /\ UNCHANGED <<retryVars, cacheVars, serverVars>>

\* The request createCache is called with.
HandlerCacheRequest ==
    [Model |-> handler.modelName, SystemPrompt |-> "", FilePaths |-> <<>>,
     TTL |-> handler.cacheTTL]

\* The CacheInfo createCache builds at clock value now.
HandlerCacheInfo ==
    [ID |-> CacheID(now), SystemPrompt |-> "", Model |-> handler.modelName,
     FilePaths |-> <<>>, CreatedAt |-> now,
     ExpiresAt |-> ExpiresAt(now, ResolveTTL(HandlerCacheRequest, config).d)]

\* "if useCache && s.config.EnableCaching { ... }": the call of createCache
\* when the model supports caching, and the choice of the path.
HandleCreateCache ==
    /\ handler.pc = "cache"
    /\ IF ~SupportsCaching(handler.modelName)
       THEN /\ handler' = [handler EXCEPT !.pc = "regular"]
            /\ caches' = caches
       ELSE LET e == CreateError(HandlerCacheRequest, config)
            IN IF e # ""
               THEN /\ handler' = [handler EXCEPT !.pc = "regular",
                                                   !.cacheErr = e]
                    /\ caches' = caches
               ELSE /\ handler' = [handler EXCEPT !.pc = "query",
                                                   !.cacheID = CacheID(now)]
                    /\ caches' = MapStore(caches, CacheID(now), HandlerCacheInfo)
    /\ UNCHANGED <<config, now, cacheMu, tasks, last, returned, purged>>
    /\ UNCHANGED <<retryVars, serverVars>>

\* fmt.Sprintf("failed to get cache: %v", err)
FailedToGetCache(e) ==
    IF e = "cache not found" THEN "failed to get cache: cache not found"
    ELSE "failed to get cache: cache has expired"

\* The handler returns the error response of a failed getCache.
RespondGetError(e) ==
    handler' = [handler EXCEPT
                  !.pc = "done", !.getErr = e,
                  !.resp = createErrorResponse(FailedToGetCache(e))]

\* A failed getCache sends the request down the regular path.
HandleQueryWithCache_FallThrough ==
    /\ handler.pc = "query"
    /\ IF handler.query = ""
       THEN /\ Respond(createErrorResponse("query must be a non-empty string"))
            /\ caches' = caches
       ELSE IF handler.cacheID \notin DOMAIN caches
       THEN /\ handler' = [handler EXCEPT !.pc = "regular",
                                           !.getErr = "cache not found"]
            /\ caches' = caches
       ELSE IF Expired(now, caches[handler.cacheID])
       THEN /\ handler' = [handler EXCEPT !.pc = "regular",
                                           !.getErr = "cache has expired"]
            /\ caches' = MapDelete(caches, handler.cacheID)
       ELSE /\ handler' = [handler EXCEPT !.pc = "send", !.cached = TRUE]
            /\ caches' = caches
    /\ UNCHANGED <<config, now, cacheMu, tasks, last, returned, purged>>
    /\ UNCHANGED <<retryVars, serverVars>>

\* handleQueryWithCache up to the request it builds: the checks of its
\* arguments and the call of getCache.
HandleQueryWithCache ==
    /\ handler.pc = "query"
    /\ IF ~config.EnableCaching
       THEN /\ Respond(createErrorResponse("caching is disabled"))
            /\ caches' = caches
       ELSE IF handler.cacheID = NoID
       THEN /\ Respond(createErrorResponse("cache_id must be a non-empty string"))
            /\ caches' = caches
       ELSE IF handler.query = ""
       THEN /\ Respond(createErrorResponse("query must be a non-empty string"))
            /\ caches' = caches
       ELSE IF handler.cacheID \notin DOMAIN caches
       THEN /\ RespondGetError("cache not found")
            /\ caches' = caches
       ELSE IF Expired(now, caches[handler.cacheID])
       THEN /\ RespondGetError("cache has expired")
            /\ caches' = MapDelete(caches, handler.cacheID)
       ELSE /\ handler' = [handler EXCEPT !.pc = "send", !.cached = TRUE]
            /\ caches' = caches
    /\ UNCHANGED <<config, now, cacheMu, tasks, last, returned, purged>>
    /\ UNCHANGED <<retryVars, serverVars>>

\* "response, err := s.client.CreateChatCompletion(ctx, request)" of the
\* regular path and of the cache-backed path, and the response made of it.
HandleSend(r) ==
    /\ handler.pc \in {"regular", "send"}
    /\ handler' =
         [handler EXCEPT
            !.pc = "done",
            !.calls = @ + 1,
            !.first = IF handler.calls = 0 THEN r ELSE @,
            !.resp = IF r.nil THEN formatResponse
                     ELSE IF handler.cached
                     THEN createErrorResponse("Error from DeepSeek API when using cached context")
                     ELSE createErrorResponse("Error from DeepSeek API")]
    /\ UNCHANGED <<retryVars, cacheVars, serverVars>>

\* The response is delivered: the handler takes the next request.
HandleReturn ==
    /\ handler.pc = "done"
    /\ handler' = IdleHandler
    /\ UNCHANGED <<retryVars, cacheVars, serverVars>>

NextHandler ==
    \/ \E a \in Arguments : HandleAskDeepseek(a)
    \/ HandleCreateCache
    \/ HandleQueryWithCache
    \/ \E r \in OpResults : HandleSend(r)
    \/ HandleReturn
    \/ Tick

\* ------------------------------------------------------------------ startup

\* The --deepseek-temperature flags drawn, in tenths: the default -1 (not
\* given), a negative value, the ends and the middle of the range, and a
\* value above it.
TemperatureFlags == {0 - 10, 0 - 5, 0, 5, 10, 11}

\* The --deepseek-model flags drawn: not given, a model of the registry, an
\* unknown model.
ModelFlags == {"", "deepseek-coder", "gpt-4"}

\* The tools a client asks for.
ToolNames == {"deepseek_ask", "deepseek_models", "deepseek_error", "other"}

NoReply == [op |-> "none"]

\* The process before main runs.
IdleStartup ==
    [pc |-> "off", apiKey |-> "key", envOk |-> TRUE, modelFlag |-> "",
     temperatureFlag |-> 0 - 10, model |-> "", ctxConfig |-> FALSE,
     registry |-> <<>>, errorMessage |-> "", reply |-> NoReply]

\* main after flag.Parse(), under the environments and flags drawn.
InitStartup ==
    startup \in
        {[IdleStartup EXCEPT !.pc = "NewConfig", !.apiKey = k, !.envOk = e,
                             !.modelFlag = m, !.temperatureFlag = f] :
            k \in {"", "key"}, e \in BOOLEAN, m \in ModelFlags,
            f \in TemperatureFlags}

\* handleStartupError(ctx, err): a new registry with the error server alone,
\* served in degraded mode.
handleStartupError(msg) ==
    startup' = [startup EXCEPT !.pc = "serving", !.errorMessage = msg,
                               !.registry = <<"ErrorDeepseekServer">>]

\* config, err := NewConfig()
MainNewConfig ==
    /\ startup.pc = "NewConfig"
    /\ IF startup.apiKey = ""
       THEN handleStartupError("DEEPSEEK_API_KEY environment variable is required")
       ELSE IF ~startup.envOk
       THEN handleStartupError("invalid environment variable")
       ELSE startup' = [startup EXCEPT !.pc = "modelFlag",
                                       !.model = "deepseek-chat"]
    /\ UNCHANGED <<retryVars, cacheVars, handler, middleware>>

\* The model flag taken as it is.
MainModelFlag_Unchecked ==
    /\ startup.pc = "modelFlag"
    /\ startup' = [startup EXCEPT !.pc = "temperatureFlag",
                                  !.model = IF startup.modelFlag # ""
                                            THEN startup.modelFlag ELSE @]
    /\ UNCHANGED <<retryVars, cacheVars, handler, middleware>>

\* "if *deepseekModelFlag != "" { ... }"
MainModelFlag ==
    /\ startup.pc = "modelFlag"
    /\ IF startup.modelFlag # "" /\ ~ValidateModelID(startup.modelFlag)
       THEN handleStartupError("invalid model specified")
       ELSE startup' = [startup EXCEPT !.pc = "temperatureFlag",
                                       !.model = IF startup.modelFlag # ""
                                                 THEN startup.modelFlag ELSE @]
    /\ UNCHANGED <<retryVars, cacheVars, handler, middleware>>

\* "if *deepseekTemperatureFlag >= 0 { ... }" and the config put in ctx.
MainTemperatureFlag ==
    /\ startup.pc = "temperatureFlag"
    /\ IF startup.temperatureFlag >= 0 /\ startup.temperatureFlag > 10
       THEN handleStartupError("invalid temperature")
       ELSE startup' = [startup EXCEPT !.pc = "setup", !.ctxConfig = TRUE]
    /\ UNCHANGED <<retryVars, cacheVars, handler, middleware>>

\* setupDeepseekServer: NewDeepseekServer and the registration of the
\* server wrapped in the logger middleware; then srv.Run().
MainSetup ==
    /\ startup.pc = "setup"
    /\ IF startup.apiKey = ""
       THEN handleStartupError("failed to create DeepSeek server")
       ELSE startup' = [startup EXCEPT !.pc = "serving",
                                       !.registry = <<"DeepseekServer">>]
    /\ UNCHANGED <<retryVars, cacheVars, handler, middleware>>

\* ListTools of registered handler h.
ListTools(h) ==
    IF h = "ErrorDeepseekServer" THEN <<"deepseek_error">>
    ELSE <<"deepseek_ask", "deepseek_models">>

\* CallTool of registered handler h: the error server's report, or what the
\* DeepseekServer's switch answers.
CallTool(h, name) ==
    IF h = "ErrorDeepseekServer"
    THEN [handler |-> h, text |-> startup.errorMessage,
          configInfo |-> startup.ctxConfig]
    ELSE [handler |-> h,
          text |-> IF name \in {"deepseek_ask", "deepseek_models"} THEN name
                   ELSE "unknown tool",
          configInfo |-> FALSE]

\* A ListTools request served by the registry.
ServeListTools ==
    /\ startup.pc = "serving"
    /\ startup' = [startup EXCEPT !.reply =
            [op |-> "ListTools", tools |-> ListTools(startup.registry[1])]]
    /\ UNCHANGED <<retryVars, cacheVars, handler, middleware>>

\* A CallTool request served by the registry.
ServeCallTool(name) ==
    /\ startup.pc = "serving"
    /\ startup' = [startup EXCEPT !.reply =
            [op |-> "CallTool", name |-> name]
                @@ CallTool(startup.registry[1], name)]
    /\ UNCHANGED <<retryVars, cacheVars, handler, middleware>>

\* srv.Run() returns an error: os.Exit(1).
ServeExit ==
    /\ startup.pc = "serving"
    /\ startup' = [startup EXCEPT !.pc = "exited"]
    /\ UNCHANGED <<retryVars, cacheVars, handler, middleware>>

NextStartup ==
    \/ MainNewConfig
    \/ MainModelFlag
    \/ MainTemperatureFlag
    \/ MainSetup
    \/ ServeListTools
    \/ \E name \in ToolNames : ServeCallTool(name)
    \/ ServeExit

\* A goroutine in no request of the middleware, and the locals of a request:
\* the method, the tool name, start and resp of the code; took, the
\* time.Since(start) this request computed; logged, the duration in its
\* completion line; done, whether that line was written.
IdleRequest ==
    [pc |-> "idle", method |-> "", name |-> "", start |-> 0,
     resp |-> NoReply, took |-> 0, logged |-> 0, done |-> FALSE]

\* No request is in the middleware.
IdleMiddleware == [execTime |-> 0, reqs |-> [t \in Tasks |-> IdleRequest]]

\* main has registered the DeepseekServer wrapped in the middleware, and
\* serves.
Serving ==
    [IdleStartup EXCEPT !.pc = "serving", !.model = "deepseek-chat",
                        !.ctxConfig = TRUE, !.registry = <<"DeepseekServer">>]

\* The requests drawn: ListTools, and CallTool of the tool that lists the
\* models (neither changes the server).
MiddlewareRequests ==
    {[method |-> "ListTools", name |-> ""],
     [method |-> "CallTool", name |-> "deepseek_models"]}

\* LoggerMiddleware.ListTools and CallTool up to the call of the handler:
\* "start := time.Now()" and the request line of the log.
MiddlewareCall(t, r) ==
    /\ startup.pc = "serving"
    /\ middleware.reqs[t].pc = "idle"
    /\ middleware' = [middleware EXCEPT !.reqs[t] =
            [IdleRequest EXCEPT !.pc = "handler", !.method = r.method,
                                !.name = r.name, !.start = now]]
    /\ UNCHANGED <<retryVars, cacheVars, handler, startup>>

\* "resp, err := handler.ListTools(ctx)", "handler.CallTool(ctx, req)"
MiddlewareHandler(t) ==
    /\ middleware.reqs[t].pc = "handler"
    /\ LET q == middleware.reqs[t]
           h == startup.registry[1]
       IN middleware' = [middleware EXCEPT
            !.reqs[t].pc = "execTime",
            !.reqs[t].resp =
                IF q.method = "ListTools"
                THEN [op |-> "ListTools", tools |-> ListTools(h)]
                ELSE [op |-> "CallTool", name |-> q.name]
                        @@ CallTool(h, q.name)]
    /\ UNCHANGED <<retryVars, cacheVars, handler, startup>>

\* "m.execTime = time.Since(start)": a write of the field all requests
\* share.
MiddlewareExecTime(t) ==
    /\ middleware.reqs[t].pc = "execTime"
    /\ LET since == now - middleware.reqs[t].start
       IN middleware' = [middleware EXCEPT !.execTime = since,
                                           !.reqs[t].pc = "log",
                                           !.reqs[t].took = since]
    /\ UNCHANGED <<retryVars, cacheVars, handler, startup>>

\* The completion line, "(took %v)" of m.execTime as it is read now, and
\* "return resp, err".
MiddlewareLog(t) ==
    /\ middleware.reqs[t].pc = "log"
    /\ middleware' = [middleware EXCEPT !.reqs[t].pc = "idle",
                                        !.reqs[t].logged = middleware.execTime,
                                        !.reqs[t].done = TRUE]
    /\ UNCHANGED <<retryVars, cacheVars, handler, startup>>

NextMiddleware ==
    \/ \E t \in Tasks, r \in MiddlewareRequests : MiddlewareCall(t, r)
    \/ \E t \in Tasks : MiddlewareHandler(t)
    \/ \E t \in Tasks : MiddlewareExecTime(t)
    \/ \E t \in Tasks : MiddlewareLog(t)
    \/ Tick

\* The process is not modelled: main has not run.
ServerIdle ==
    /\ startup = IdleStartup
    /\ middleware = IdleMiddleware

\* ---------------------------------------------------------- specifications

\* No call of the retry executor is in progress.
RetryIdle ==
    /\ maxRetries = 0
    /\ initialBackoff = Second
    /\ maxBackoff = 10 * Second
    /\ errorClassifier = "IsRetryableError"
    /\ ctxDone = FALSE
    /\ timerFired = FALSE
    /\ selected = "none"
    /\ rpc = "done"
    /\ attempt = 0
    /\ backoff = Second
    /\ nextBackoff = 0
    /\ err = NilErr
    /\ result = NilErr
    /\ rpath = "none"
    /\ randomJitter = 0
    /\ calls = 0
    /\ cancelWait = 0
    /\ waits = <<>>

\* A store nobody calls.
CacheIdle ==
    /\ config = [EnableCaching |-> TRUE, DefaultCacheTTL |-> 2 * Second,
                 MaxRetries |-> DefaultMaxRetries,
                 DeepseekModel |-> "deepseek-chat"]
    /\ now = 0
    /\ caches = <<>>
    /\ cacheMu = [readers |-> {}, writer |-> 0]
    /\ tasks = [t \in Tasks |-> IdleTask]
    /\ last = NoCall
    /\ returned = <<>>
    /\ purged = {}

NextRetry ==
    \/ Attempt
    \/ LoopExit
    \/ SelectPoll
    \/ SelectDone
    \/ SelectTimer
    \/ Cancel
    \/ TimerFire

\* One call of RetryWithBackoff.
InitRetrySpec == InitRetry /\ CacheIdle /\ handler = IdleHandler /\ ServerIdle

SpecRetry == InitRetrySpec /\ [][NextRetry]_vars

\* Goroutines calling createCache and getCache while the clock runs.
InitCacheSpec == InitCache /\ RetryIdle /\ handler = IdleHandler /\ ServerIdle

SpecCache == InitCacheSpec /\ [][NextCache]_vars

\* The steps of a call in progress that wait for nothing: a goroutine that
\* can run is run.
RunStep(t) ==
    \/ CreateStamp(t)
    \/ CreateStore(t)
    \/ CreateUnlock(t)
    \/ GetLookup(t)
    \/ GetRUnlock(t)
    \/ GetCheck(t)
    \/ GetDelete(t)
    \/ GetUnlock(t)

\* The calls of the fair specification: two requests that createCache
\* accepts, and the first id it makes.
FairRequests == {BaseRequest, OtherRequest}

FairIDs == {CacheID(0)}

NextCacheFair ==
    \/ \E t \in Tasks, r \in FairRequests : CreateCall(t, r)
    \/ \E t \in Tasks : CreateStamp(t)
    \/ \E t \in Tasks : CreateLock(t)
    \/ \E t \in Tasks : CreateStore(t)
    \/ \E t \in Tasks : CreateUnlock(t)
    \/ \E t \in Tasks, id \in FairIDs : GetCall(t, id)
    \/ \E t \in Tasks : GetLookup(t)
    \/ \E t \in Tasks : GetRUnlock(t)
    \/ \E t \in Tasks : GetCheck(t)
    \/ \E t \in Tasks : GetLock(t)
    \/ \E t \in Tasks : GetDelete(t)
    \/ \E t \in Tasks : GetUnlock(t)
    \/ Tick

\* The cache store under a fair scheduler and a fair mutex: a goroutine that
\* can run is run, and a goroutine waiting in Lock gets the mutex if it is
\* free again and again (sync.RWMutex holds new readers back while a writer
\* waits, and wakes its waiters).
SpecCacheFair ==
    /\ InitCacheSpec
    /\ [][NextCacheFair]_vars
    /\ \A t \in Tasks :
        /\ WF_vars(RunStep(t))
        /\ SF_vars(CreateLock(t))
        /\ SF_vars(GetLock(t))

\* The server after NewDeepseekServer, under the configurations drawn, with
\* no call of the store or of the executor in progress.
InitHandlerSpec ==
    /\ config \in [EnableCaching : BOOLEAN, DefaultCacheTTL : {2 * Second},
                    MaxRetries : {0, DefaultMaxRetries},
                    DeepseekModel : {"deepseek-chat", "deepseek-chat-001"}]
    /\ now = 0
    /\ caches = <<>>
    /\ cacheMu = [readers |-> {}, writer |-> 0]
    /\ tasks = [t \in Tasks |-> IdleTask]
    /\ last = NoCall
    /\ returned = <<>>
    /\ purged = {}
    /\ RetryIdle
    /\ handler = IdleHandler
    /\ ServerIdle

\* Tool requests handled one after the other while the clock runs.
SpecHandler == InitHandlerSpec /\ [][NextHandler]_vars

\* The process from main to the requests it serves.
InitStartupSpec ==
    /\ InitStartup
    /\ middleware = IdleMiddleware
    /\ RetryIdle
    /\ CacheIdle
    /\ handler = IdleHandler

SpecStartup == InitStartupSpec /\ [][NextStartup]_vars

\* The serving process, with no request in the middleware.
InitMiddlewareSpec ==
    /\ startup = Serving
    /\ middleware = IdleMiddleware
    /\ RetryIdle
    /\ CacheIdle
    /\ handler = IdleHandler

\* Goroutines sending tool requests through the one LoggerMiddleware while
\* the clock runs.
SpecMiddleware == InitMiddlewareSpec /\ [][NextMiddleware]_vars

\* ------------------------------------------------- retry executor: claims

RECURSIVE Pow2(_)
Pow2(n) == IF n <= 0 THEN 1 ELSE 2 * Pow2(n - 1)

\* The call has returned and takes no further step.
Returned == rpc = "done" /\ ~ENABLED NextRetry

\* C1: whatever maxRetries is, when the first invocation of the operation
\* succeeds the call has returned nil through the success return, the
\* operation has been invoked once, no backoff wait was begun, and the call
\* takes no further step.
C1_SuccessShortCircuit ==
    (calls = 1 /\ err.nil) =>
        /\ Returned
        /\ result = NilErr
        /\ rpath = "success"
        /\ waits = <<>>

C1_Witness ==
    /\ calls = 1
    /\ err.nil
    /\ rpc = "done"
    /\ maxRetries = MaxRetriesIn

\* C2: when the classifier rejects the operation's error, the call returns
\* that very error at once: no wait follows the invocation and no further
\* invocation is made; with a classifier that rejects every error the
\* operation is invoked at most once and no wait is ever begun.
C2_NonRetryable ==
    /\ (calls >= 1 /\ ~err.nil /\ ~Classify(errorClassifier, err)) =>
            /\ Returned
            /\ result = err
            /\ rpath = "nonretryable"
            /\ Len(waits) = calls - 1
    /\ errorClassifier = "AlwaysFalse" => (calls <= 1 /\ waits = <<>>)

C2_Witness ==
    /\ errorClassifier = "AlwaysFalse"
    /\ calls = 1
    /\ result = ErrDeadline
    /\ rpc = "done"
    /\ maxRetries > 0

\* C3 as stated: maxRetries is the total number of invocations, so that an
\* exhausted call has made exactly maxRetries invocations and no call makes
\* more.
C3_Original ==
    maxRetries >= 1 =>
        /\ calls <= maxRetries
        /\ rpath = "exhausted" => calls = maxRetries

\* C3 amended: maxRetries counts the retries after the first invocation. No
\* call makes more than maxRetries + 1 invocations, and a call whose every
\* invocation failed with a retryable error and that was not cancelled
\* returns the last error after exactly maxRetries + 1 invocations.
C3_AttemptBound ==
    /\ maxRetries >= 0 => calls <= maxRetries + 1
    /\ rpath = "exhausted" =>
            /\ calls = maxRetries + 1
            /\ Len(waits) = maxRetries
            /\ result = err
    /\ (/\ rpc = "done"
        /\ maxRetries >= 0
        /\ Classify(errorClassifier, err)
        /\ rpath # "cancelled") =>
            /\ rpath = "exhausted"
            /\ calls = maxRetries + 1

C3_Witness ==
    /\ maxRetries = 5
    /\ rpath = "exhausted"
    /\ calls = 6
    /\ ~ctxDone

\* C4: the base delay of the k-th wait of a call is initialBackoff * 2^(k-1),
\* whatever jitter was drawn and whatever the cap did to the earlier waits;
\* with initialBackoff = 1s and maxBackoff = 10s the bases of the first four
\* waits are 1s, 2s, 4s, 8s.
C4_BackoffSequence ==
    /\ \A k \in DOMAIN waits : waits[k] = initialBackoff * Pow2(k - 1)
    /\ InWait => backoff = waits[Len(waits)]
    /\ (initialBackoff = Second /\ maxBackoff = 10 * Second /\ Len(waits) >= 4) =>
            SubSeq(waits, 1, 4) = <<Second, 2 * Second, 4 * Second, 8 * Second>>

C4_Witness ==
    /\ initialBackoff = Second
    /\ maxBackoff = 10 * Second
    /\ waits = <<Second, 2 * Second, 4 * Second, 8 * Second>>
    /\ randomJitter > 0
    /\ rpath = "exhausted"

\* C5: once the context is cancelled during a backoff wait the call can
\* proceed at once, whether or not the timer has fired; a call that leaves a
\* wait whose context is cancelled and whose timer has not fired returns the
\* cancellation error without another invocation; and a wait that the
\* cancellation has ended returns the cancellation error and nothing else.
C5_CancelDuringWait ==
    /\ [](InWait /\ ctxDone => ENABLED (SelectPoll \/ SelectDone \/ SelectTimer))
    /\ [][(InWait /\ ctxDone /\ ~timerFired /\ ~InWait') =>
            /\ rpc' = "done"
            /\ result' = ErrCancelled
            /\ calls' = calls]_vars
    /\ [](selected = "done" =>
            /\ rpc \in {"parked", "done"}
            /\ calls = Len(waits)
            /\ rpc = "done" => result = ErrCancelled)

C5_Witness ==
    /\ cancelWait > 1
    /\ ~timerFired
    /\ rpc = "done"
    /\ result = ErrCancelled

\* C6 as stated: once the cancellation has fired during wait k, the call makes
\* no invocation beyond the k made before that wait and never returns nil.
C6_CancelIsFatal ==
    cancelWait > 0 =>
        /\ calls = cancelWait
        /\ rpc = "done" => ~result.nil

\* C7 as stated: the value returned after exhaustion is an annotation of the
\* last operation error, not a bare operation error such as the non-retryable
\* return hands back.
C7_Original == rpath = "exhausted" => result \notin OpErrors

\* C7 amended: after exhaustion the call returns the last operation error
\* itself, unwrapped, as the non-retryable return does; the two returned
\* values differ only in the classifier's verdict on them.
C7_ExhaustedUnwrapped ==
    /\ rpath = "exhausted" =>
            /\ result = err
            /\ result \in OpErrors
            /\ Classify(errorClassifier, result)
    /\ rpath = "nonretryable" =>
            /\ result = err
            /\ result \in OpErrors
            /\ ~Classify(errorClassifier, result)

C7_Witness ==
    /\ rpath = "exhausted"
    /\ result = ErrEOF
    /\ calls > 1

\* C8 as stated: with maxBackoff < initialBackoff the operation is never
\* invoked, no wait is begun and the call does not return what a run of the
\* operation returns.
C8_Original ==
    maxBackoff < initialBackoff =>
        /\ calls = 0
        /\ waits = <<>>
        /\ rpc = "done" => result \notin OpResults

\* C8 amended: a policy with maxBackoff < initialBackoff is not rejected. The
\* operation is invoked as under any policy, every wait lasts exactly
\* maxBackoff, and the call returns what the operation returned or the
\* cancellation error.
C8_InvalidPolicyRuns ==
    maxBackoff < initialBackoff =>
        /\ (rpc = "done" /\ maxRetries >= 0) => calls >= 1
        /\ InWait => nextBackoff = maxBackoff
        /\ rpc = "done" => result \in OpResults \cup {ErrCancelled}

C8_Witness ==
    /\ maxBackoff < initialBackoff
    /\ rpc = "parked"
    /\ calls = 2
    /\ nextBackoff = maxBackoff

Min(a, b) == IF a < b THEN a ELSE b

C28_NilOnlyAfterSuccess ==
    (rpc = "done" /\ result.nil) =>
        /\ calls >= 1
        /\ err.nil

\* --------------------------------------------------------- cache store: claims

\* The goroutines whose createCache has built its CacheInfo and not returned.
Creating == {t \in Tasks : tasks[t].pc \in {"c_lock", "c_store", "c_unlock"}}

\* expiresAt - createdAt of entry e is exactly the ttl request r resolves to.
TTLExact(e, r) ==
    /\ ResolveTTL(r, config).ok
    /\ e.ExpiresAt = e.CreatedAt + ResolveTTL(r, config).d

\* C9: the entry a createCache has built, the entry it returns and every entry
\* of the table satisfy expiresAt = createdAt + ttl exactly, ttl being the
\* duration the request of that call resolves to (the parsed ttl string, or
\* the configured default for an empty one).
C9_ExpiryArithmetic ==
    /\ \A t \in Creating : TTLExact(tasks[t].info, tasks[t].req)
    /\ (last.op = "create" /\ last.ok) => TTLExact(last.info, last.req)
    /\ \A i \in DOMAIN returned : TTLExact(returned[i].info, returned[i].req)
    /\ \A id \in DOMAIN caches :
        \/ \E i \in DOMAIN returned : returned[i].info = caches[id]
        \/ \E t \in Creating : tasks[t].info = caches[id]

C9_Witness ==
    /\ last.op = "create"
    /\ last.ok
    /\ last.req.TTL = <<"-", "1", "s">>
    /\ last.info.CreatedAt = Second
    /\ last.info.ExpiresAt = 0
    /\ caches[last.info.ID] = last.info

\* C10 as stated: a getCache(id) whose expiry check runs at a clock value not
\* after the expiresAt of an entry that a createCache had returned under that
\* id before the getCache began succeeds and returns that entry, equal in
\* every field.
C10_RoundTrip ==
    last.op = "get" =>
        \A i \in 1..last.seen :
            (/\ returned[i].info.ID = last.id
             /\ last.at <= returned[i].info.ExpiresAt) =>
                /\ last.ok
                /\ last.info = returned[i].info

\* --------------------------------------------------- cache store: expiry

NotFound(e) == e = "cache not found"

HasExpired(e) == e = "cache has expired"

\* C11 as stated: a getCache that finds an entry and checks it at a clock
\* value past its expiresAt fails with the expired condition and the id is
\* no longer a key of the table when it returns, and every getCache(id) that
\* begins after a getCache(id) has returned the expired condition fails with
\* the not-found condition.
C11_ExpirySequence ==
    last.op = "get" =>
        /\ (last.found.ok /\ last.at > last.found.info.ExpiresAt) =>
                /\ HasExpired(last.err)
                /\ last.id \notin DOMAIN caches
        /\ last.after => NotFound(last.err)

\* The step taken is a step of goroutine t.
StepOf(t) == tasks'[t].pc # tasks[t].pc

\* C12: a getCache(id) whose lookup runs when id is not a key of the table
\* finds nothing, takes the path that acquires no write lock, changes the
\* table in none of its steps, and returns the not-found condition with no
\* entry.
C12_UnknownId ==
    [][\A t \in Tasks :
        /\ (tasks[t].pc = "g_lookup" /\ tasks[t].id \notin DOMAIN caches
                /\ StepOf(t)) =>
                /\ ~tasks'[t].ok
                /\ caches' = caches
        /\ (tasks[t].pc \in {"g_runlock", "g_check"} /\ ~tasks[t].ok
                /\ StepOf(t)) =>
                /\ caches' = caches
                /\ tasks'[t].pc \in {"g_check", "idle"}
                /\ tasks'[t].pc = "idle" =>
                        /\ last'.op = "get"
                        /\ last'.task = t
                        /\ ~last'.ok
                        /\ NotFound(last'.err)
                        /\ last'.info = NilInfo]_vars

\* A getCache of a reaped id has returned not-found, another entry being in
\* the table.
C12_Witness ==
    /\ last.op = "get"
    /\ last.after
    /\ NotFound(last.err)
    /\ DOMAIN caches # {}
    /\ last.id \notin DOMAIN caches

\* C13 as stated: the createCache calls that returned an entry returned
\* pairwise distinct ids, and no entry one of them returned has been
\* overwritten: the table holds under its id that entry or, once reaped,
\* nothing.
C13_DistinctIds ==
    \A i, j \in DOMAIN returned :
        /\ i # j => returned[i].info.ID # returned[j].info.ID
        /\ returned[i].info.ID \in DOMAIN caches =>
                caches[returned[i].info.ID] = returned[i].info

\* ----------------------------------------------- cache store: validation

\* C14 as stated: a createCache whose ttl resolves to zero or a negative
\* duration fails, and no entry of the table has expiresAt <= createdAt.
C14_RejectsNonPositiveTTL ==
    /\ (/\ last.op = "create"
        /\ ResolveTTL(last.req, config).ok
        /\ ResolveTTL(last.req, config).d <= 0) => ~last.ok
    /\ \A id \in DOMAIN caches : caches[id].ExpiresAt > caches[id].CreatedAt

\* A non-empty ttl string that is no duration.
Malformed(ttl) == ttl # <<>> /\ ~ParseDuration(ttl).ok

\* C15: a createCache whose non-empty ttl string does not parse returns an
\* error and no entry in the step it is called in, which leaves the table
\* and the entries returned so far unchanged; no createCache with such a ttl
\* gets past the checks.
C15_MalformedTTL ==
    [][/\ (last'.op = "create" /\ Malformed(last'.req.TTL)) =>
            /\ ~last'.ok
            /\ last'.err # ""
            /\ last'.info = NilInfo
            /\ caches' = caches
            /\ returned' = returned
       /\ \A t \in Tasks :
            tasks'[t].pc # "idle" => ~Malformed(tasks'[t].req.TTL)]_vars

\* "1d" was refused for its ttl while an entry was in the table.
C15_Witness ==
    /\ last.op = "create"
    /\ last.req.TTL = <<"1", "d">>
    /\ last.err = "invalid TTL format"
    /\ DOMAIN caches # {}

\* The registry knows model m.
Known(m) == \E i \in DOMAIN AvailableModels : AvailableModels[i] = m

\* C16: a createCache with an empty model or a model the registry does not
\* know returns an error and no entry in the step it is called in, which
\* leaves the table unchanged; no such call gets past the checks, and every
\* entry of the table has a non-empty model the registry knows.
C16_ModelValidation ==
    [][/\ (last'.op = "create" /\ ~Known(last'.req.Model)) =>
            /\ ~last'.ok
            /\ last'.err # ""
            /\ last'.info = NilInfo
            /\ caches' = caches
            /\ returned' = returned
       /\ \A t \in Tasks :
            tasks'[t].pc # "idle" => Known(tasks'[t].req.Model)
       /\ \A id \in DOMAIN caches' :
            caches'[id].Model # "" /\ Known(caches'[id].Model)]_vars

\* An unknown model was refused by the registry while an entry was in the
\* table.
C16_Witness ==
    /\ last.op = "create"
    /\ last.req.Model = "gpt-4"
    /\ last.err = "invalid model"
    /\ DOMAIN caches # {}

\* ------------------------------------------ cache store: visibility, frame

\* C17 as stated: a getCache(id) that begins after a createCache has returned
\* an entry under id, and checks it while the clock still reads the entry's
\* createdAt, fails neither with not-found nor with expired.
C17_CreateVisible ==
    last.op = "get" =>
        \A i \in 1..last.seen :
            (/\ returned[i].info.ID = last.id
             /\ last.at = returned[i].info.CreatedAt) =>
                /\ ~NotFound(last.err)
                /\ ~HasExpired(last.err)

\* C18: a getCache leaves the table unchanged in its call, lookup and read
\* unlock steps; its lookup of an id that is a key reads the entry under it;
\* and when the entry read is unexpired at the check (now <= expiresAt) the
\* check returns that entry, the call is over, and the table, keys and
\* entries, is the same after the step as before.
C18_GetReadOnly ==
    [][\A t \in Tasks : StepOf(t) =>
        /\ (tasks'[t].pc = "g_lookup" \/ tasks[t].pc \in {"g_lookup", "g_runlock"})
                => caches' = caches
        /\ (tasks[t].pc = "g_lookup" /\ tasks[t].id \in DOMAIN caches) =>
                /\ tasks'[t].ok
                /\ tasks'[t].info = caches[tasks[t].id]
        /\ (/\ tasks[t].pc = "g_check"
            /\ tasks[t].ok
            /\ now <= tasks[t].info.ExpiresAt) =>
                /\ caches' = caches
                /\ tasks'[t].pc = "idle"
                /\ last'.op = "get"
                /\ last'.task = t
                /\ last'.ok
                /\ last'.info = tasks[t].info]_vars

\* A getCache has returned an entry at the very clock value of its
\* expiresAt, the table holding that entry and another.
C18_Witness ==
    /\ last.op = "get"
    /\ last.ok
    /\ last.at = last.info.ExpiresAt
    /\ last.id \in DOMAIN caches
    /\ caches[last.id] = last.info
    /\ Cardinality(DOMAIN caches) = 2

\* The fields of a complete entry.
EntryFields == {"ID", "SystemPrompt", "Model", "FilePaths", "CreatedAt", "ExpiresAt"}

\* C19 as stated: a getCache returns the complete entry its lookup read, or
\* the expired condition and no entry, or not-found and no entry; and a
\* getCache(id) that begins after a getCache(id) has returned the expired
\* condition (the first of the expired and not-found results of an id that
\* was created is always an expired one: only that path deletes) does not
\* return an entry.
C19_GetLinearizable ==
    last.op = "get" =>
        /\ \/ /\ last.ok
              /\ last.found.ok
              /\ last.info = last.found.info
              /\ DOMAIN last.info = EntryFields
           \/ /\ ~last.ok
              /\ HasExpired(last.err) \/ NotFound(last.err)
              /\ last.info = NilInfo
        /\ last.after => ~last.ok

\* ------------------------------------------------------- request handler

\* C20 as stated: when the first outbound chat-completion call of a request
\* failed with an error the executor's classifier retries, and the
\* configuration allows a retry, the handler has issued the call again
\* before it responds.
C20_HandlerRetries ==
    (/\ handler.pc = "done"
     /\ handler.calls >= 1
     /\ IsRetryableError(handler.first)
     /\ config.MaxRetries >= 1) => handler.calls >= 2

\* The cache-backed outbound call of the request failed.
CachedCallFailed == handler.cached /\ handler.calls >= 1 /\ ~handler.first.nil

StepFails ==
    \/ startup.apiKey = ""
    \/ ~startup.envOk
    \/ startup.modelFlag # "" /\ ~Known(startup.modelFlag)
    \/ startup.temperatureFlag > 10

\* C22: the normal handler is registered only by a process no step of which
\* fails and the error handler only by one a step of which fails, never
\* both; once the process serves, a failed step means the registry holds the
\* error handler alone, ListTools answers exactly deepseek_error and every
\* CallTool answers the error server's report of the initialization error;
\* and no failed step means the registry holds the normal handler alone.
C22_DegradedMode ==
    /\ startup.registry \in
            {<<>>, <<"ErrorDeepseekServer">>, <<"DeepseekServer">>}
    /\ startup.registry = <<"ErrorDeepseekServer">> => StepFails
    /\ startup.registry = <<"DeepseekServer">> => ~StepFails
    /\ startup.pc \in {"serving", "exited"} =>
            /\ StepFails => /\ startup.registry = <<"ErrorDeepseekServer">>
                            /\ startup.errorMessage # ""
            /\ ~StepFails => startup.registry = <<"DeepseekServer">>
    /\ (StepFails /\ startup.reply.op = "ListTools") =>
            startup.reply.tools = <<"deepseek_error">>
    /\ (StepFails /\ startup.reply.op = "CallTool") =>
            /\ startup.reply.handler = "ErrorDeepseekServer"
            /\ startup.reply.text = startup.errorMessage

\* A process whose model flag names an unknown model has answered a
\* deepseek_ask call with the report of that error.
C22_Witness ==
    /\ startup.modelFlag = "gpt-4"
    /\ startup.reply.op = "CallTool"
    /\ startup.reply.name = "deepseek_ask"
    /\ startup.reply.text = "invalid model specified"

\* ------------------------------------------------------ cache store: locks

\* The goroutines between Lock and Unlock: at the store of createCache or
\* the delete of getCache, or past it.
InWrite == {t \in Tasks : tasks[t].pc \in {"c_store", "c_unlock", "g_delete", "g_unlock"}}

\* The goroutines between RLock and RUnlock: at the lookup of getCache, or
\* past it.
InRead == {t \in Tasks : tasks[t].pc \in {"g_lookup", "g_runlock"}}

\* C25: a goroutine at the store of createCache or the delete of getCache
\* holds the write lock, a goroutine at the lookup of getCache holds the read
\* lock, at most one goroutine is between Lock and Unlock, and none is
\* between RLock and RUnlock while one is.
C25_LockDiscipline ==
    /\ \A t \in InWrite : cacheMu.writer = t
    /\ \A t \in InRead : t \in cacheMu.readers
    /\ Cardinality(InWrite) <= 1
    /\ InWrite # {} => InRead = {}

\* A getCache is at its delete while a createCache waits for the lock.
C25_Witness ==
    \E t, u \in Tasks :
        /\ tasks[t].pc = "g_delete"
        /\ tasks[u].pc = "c_lock"
        /\ cacheMu.writer = t

\* C26 as stated: in every step, an entry that leaves the table is removed
\* by the delete of a getCache of its id that had read that entry and found
\* it expired, and an entry that stays in the table is unchanged.
C26_LazyRemovalOnly ==
    [][\A id \in DOMAIN caches :
        IF id \in DOMAIN caches'
        THEN caches'[id] = caches[id]
        ELSE \E t \in Tasks :
                /\ tasks[t].pc = "g_delete"
                /\ tasks'[t].pc = "g_unlock"
                /\ tasks[t].id = id
                /\ tasks[t].info = caches[id]
                /\ tasks[t].at > caches[id].ExpiresAt]_vars

\* C29 as stated: in every step, an entry that leaves the table is the entry
\* the deleting getCache had read and found expired, and its expiresAt has
\* passed at the time of the delete.
C29_DeleteOnlyExpired ==
    [][\A id \in DOMAIN caches :
        id \notin DOMAIN caches' =>
            /\ now > caches[id].ExpiresAt
            /\ \E t \in Tasks :
                /\ tasks[t].pc = "g_delete"
                /\ tasks[t].id = id
                /\ tasks[t].info = caches[id]]_vars

\* C27: a getCache waiting for the write lock of its delete holds no read
\* lock, and under a fair scheduler and a fair mutex every createCache and
\* getCache in progress returns. (A getCache begins, in this model, when it
\* gets the read lock; one waiting in RLock waits for a writer, and every
\* writer is a call in progress.)
C27_DeadlockFree ==
    /\ [](\A t \in Tasks : tasks[t].pc = "g_lock" => t \notin cacheMu.readers)
    /\ \A t \in Tasks : (tasks[t].pc # "idle") ~> (tasks[t].pc = "idle")

\* A getCache waits for the write lock of its delete while the other
\* goroutine is inside a getCache of its own, holding the read lock.
C27_Witness ==
    \E t, u \in Tasks :
        /\ tasks[t].pc = "g_lock"
        /\ tasks[u].pc \in {"g_lookup", "g_runlock"}
        /\ u \in cacheMu.readers

\* -------------------------------------------------------------- middleware

\* C30 as stated: the duration a request logs on completion is the
\* time.Since(start) it computed itself, and between its write of execTime
\* and its read the field holds what it wrote.
C30_OwnDuration ==
    \A t \in Tasks :
        /\ middleware.reqs[t].done =>
                middleware.reqs[t].logged = middleware.reqs[t].took
        /\ middleware.reqs[t].pc = "log" =>
                middleware.execTime = middleware.reqs[t].took

====
